---- MODULE Spec2Model ----
(***************************************************************************)
(* Supply chain planner: the MILP allocation optimizer (solver/optimizer), *)
(* the feasibility filter of the data loader (solver/data_loader) and the  *)
(* 3-tier ranker (solver/ranker), over a small reference-data snapshot.    *)
(*                                                                         *)
(* Quantities the solver treats as continuous (x[i]) are kept in units of  *)
(* 1/Grain.  Scores are exact rationals kept as <<numerator, denominator>> *)
(* with one denominator per solve (floating-point error is not modelled).  *)
(* The MILP engine is external: it may return any optimal assignment.      *)
(***************************************************************************)
EXTENDS Integers, Sequences, FiniteSets, TLC

\* ------------------------------------------------------------------ bounds
MaxVolume == 4
MaxBatch == 2
MaxCap == 3
MaxThr == 3
MaxMfg == 2
MaxLead == 3
Grain == 2
MaxTimeWeight == 6

\* ------------------------------------------------- reference data snapshot
Factories == {"F1", "F2", "F3"}
Hubs == {"H1", "H2"}
Countries == {"US", "DE"}
Categories == {"CAT01", "CAT02"}

_country_region == [c \in Countries |-> IF c = "US" THEN "NAM" ELSE "EUR"]
_factory_region == [f \in Factories |->
    IF f = "F1" THEN "NAM" ELSE IF f = "F2" THEN "EUR" ELSE "NEA"]
_factory_country == [f \in Factories |->
    IF f = "F1" THEN "US" ELSE IF f = "F2" THEN "DE" ELSE "CN"]
_hub_region == [h \in Hubs |-> IF h = "H1" THEN "NAM" ELSE "NEA"]
_hub_country == [h \in Hubs |-> IF h = "H1" THEN "US" ELSE "CN"]

\* dict.get(key) of the lookup maps: None for an unknown id
get_region_for_country(c) == IF c \in DOMAIN _country_region THEN _country_region[c] ELSE "None"
get_region_for_factory(f) == IF f \in DOMAIN _factory_region THEN _factory_region[f] ELSE "None"
get_region_for_hub(h) == IF h \in DOMAIN _hub_region THEN _hub_region[h] ELSE "None"
factory_country(f) == IF f \in DOMAIN _factory_country THEN _factory_country[f] ELSE ""

\* the restriction records a snapshot may hold
RestrictionRecords == {
    [destination_country_code |-> "US", restricted_country_code |-> "CN",
     restriction_type |-> "MADE_IN", reason |-> "US-China trade restrictions"],
    [destination_country_code |-> "US", restricted_country_code |-> "CN",
     restriction_type |-> "ROUTED_THROUGH", reason |-> "US security compliance"]}

\* (factory, hub, country, category) keys of the rows of all_flows.csv
FlowKeys == << <<"F1", "H1", "US", "CAT01">>,
               <<"F1", "H2", "US", "CAT01">>,
               <<"F2", "H1", "US", "CAT01">>,
               <<"F3", "H2", "US", "CAT01">>,
               <<"F2", "H2", "DE", "CAT01">>,
               <<"F3", "H1", "US", "CAT02">>,
               <<"F3", "H2", "US", "CAT02">> >>

\* per-unit logistics cost added by the hub, and the two transit legs
HubCost == [h \in Hubs |-> 1]
\* representative_weight_kg, the factory-to-hub cost of one kg, and the
\* hub-to-country cost of one unit
CategoryWeight == [c \in Categories |-> IF c = "CAT01" THEN 1 ELSE 2]
TransportCostPerKg == [f \in Factories, h \in Hubs |-> 1]
LastMileCost == [h \in Hubs, c \in Countries |-> IF c = "US" THEN 0 ELSE 1]
FactoryToHubDays == [f \in Factories, h \in Hubs |-> IF f = "F1" THEN 1 ELSE 2]
LastMileDays == [h \in Hubs, c \in Countries |-> 1]

is_flow_restricted(geo, fcc, hcc, cc) ==
    \E r \in geo :
        /\ r.destination_country_code = cc
        /\ \/ r.restriction_type = "MADE_IN" /\ r.restricted_country_code = fcc
           \/ r.restriction_type = "ROUTED_THROUGH" /\ r.restricted_country_code = hcc

\* one row of the master flow table, as generate_all_flows computes it
FlowRow(key, mfg, geo, max_lt) ==
    LET f == key[1]
        h == key[2]
        cc == key[3]
        days == FactoryToHubDays[f, h] + LastMileDays[h, cc]
        transport_cost == TransportCostPerKg[f, h] * CategoryWeight[key[4]]
    IN  [factory_id |-> f, hub_id |-> h, country_code |-> cc, category_id |-> key[4],
         transport_cost |-> transport_cost,
         last_mile_cost |-> LastMileCost[h, cc],
         total_landed_cost |-> mfg[f] + transport_cost + HubCost[h] + LastMileCost[h, cc],
         transit_days |-> days,
         is_lead_time_feasible |-> IF days <= max_lt THEN 1 ELSE 0,
         is_geopolitically_restricted |->
            IF is_flow_restricted(geo, _factory_country[f], _hub_country[h], cc) THEN 1 ELSE 0]

generate_all_flows(mfg, geo, max_lt) ==
    [k \in 1..Len(FlowKeys) |-> FlowRow(FlowKeys[k], mfg, geo, max_lt)]

\* a snapshot in which every factory ships CAT01 to the US through every hub
WideFlowKeys == << <<"F1", "H1", "US", "CAT01">>,
                   <<"F1", "H2", "US", "CAT01">>,
                   <<"F2", "H1", "US", "CAT01">>,
                   <<"F2", "H2", "US", "CAT01">>,
                   <<"F3", "H1", "US", "CAT01">>,
                   <<"F3", "H2", "US", "CAT01">> >>

generate_wide_flows(mfg, geo, max_lt) ==
    [k \in 1..Len(WideFlowKeys) |-> FlowRow(WideFlowKeys[k], mfg, geo, max_lt)]

\* ------------------------------------------------------------ solve inputs
MaxWeight == 2
DefaultWeights == <<8, 5, 3>>
WeightTriples == {DefaultWeights, <<1, 1, 1>>}

Requests == [category_id : {"CAT01"}, country_code : {"US"},
             volume : 1..MaxVolume, weights : WeightTriples, min_batch : 1..MaxBatch]

NoRequest == [category_id |-> "", country_code |-> "", volume |-> 0,
              weights |-> DefaultWeights, min_batch |-> 0]

VARIABLES
    all_flows,          \* SupplyChainData.all_flows (sequence of rows)
    factory_capacity,   \* SupplyChainData.factory_capacity: <<factory, category>> -> units
    hub_throughput,     \* SupplyChainData.hubs: hub -> monthly_throughput_capacity
    geopolitical,       \* SupplyChainData.geopolitical (set of restriction records)
    pc,                 \* "NotSolved", "Solved", "Ranked"
    req,                \* the arguments of the solve() call
    result,             \* the SolverResult returned by solve()
    engine,             \* what the MILP engine was given and what it returned
    ranked,             \* the dict returned by rank_flows()
    sessions,           \* concurrent solve() calls: session -> position and locals
    graph,              \* SupplyChainGraph.graph: the networkx DiGraph
    kg_answer           \* the last graph query or what-if analysis and its answer

vars == <<all_flows, factory_capacity, hub_throughput, geopolitical,
          pc, req, result, engine, ranked, sessions, graph, kg_answer>>
kgVars == <<graph, kg_answer>>
dataVars == <<all_flows, factory_capacity, hub_throughput, geopolitical>>
pageVars == <<pc, req, result, engine, ranked>>

\* ----------------------------------------------------------- seq helpers
RECURSIVE SumTo(_, _)
\* f[1] + ... + f[n]
SumTo(f, n) == IF n = 0 THEN 0 ELSE f[n] + SumTo(f, n - 1)

SumSeq(s) == SumTo(s, Len(s))

\* sum of s[i] over the indices i in S
SumSet(s, S) == SumTo([i \in DOMAIN s |-> IF i \in S THEN s[i] ELSE 0], Len(s))

Range(s) == {s[i] : i \in DOMAIN s}
MinOf(S) == CHOOSE m \in S : \A n \in S : m <= n
MaxOf(S) == CHOOSE m \in S : \A n \in S : m >= n

RECURSIVE FilterSeq(_, _)
\* the rows of s at the indices of keep, in order
FilterSeq(s, keep) ==
    IF s = <<>> THEN <<>>
    ELSE LET n == Len(s)
             front == FilterSeq(SubSeq(s, 1, n - 1), keep)
         IN  IF n \in keep THEN Append(front, s[n]) ELSE front

\* ------------------------------------------------------------ data_loader
\* variant: the geopolitical flag is not part of the mask
get_feasible_flows_lead_time_only(flowsTable, category_id, country_code) ==
    FilterSeq(flowsTable,
        {k \in DOMAIN flowsTable :
            /\ flowsTable[k].category_id = category_id
            /\ flowsTable[k].country_code = country_code
            /\ flowsTable[k].is_lead_time_feasible = 1})

get_feasible_flows(flowsTable, category_id, country_code) ==
    FilterSeq(flowsTable,
        {k \in DOMAIN flowsTable :
            /\ flowsTable[k].category_id = category_id
            /\ flowsTable[k].country_code = country_code
            /\ flowsTable[k].is_geopolitically_restricted = 0
            /\ flowsTable[k].is_lead_time_feasible = 1})

\* dict factory_id -> monthly_capacity_units for one category
get_factory_capacity(capTable, category_id) ==
    [f \in {k[1] : k \in {kk \in DOMAIN capTable : kk[2] = category_id}} |->
        capTable[<<f, category_id>>]]

get_hub_throughput(hubTable) == hubTable

\* dict.get(key, 0)
DictGet0(d, k) == IF k \in DOMAIN d THEN d[k] ELSE 0


\* ---------------------------------------------------------------- optimizer
\* variant: the penalty tiers are 0, 1 and 2 instead of 0.0, 0.5 and 1.0
RegionalPenaltyWholeTiers(r, dest_region) ==
    IF get_region_for_factory(r.factory_id) = dest_region THEN 0
    ELSE IF get_region_for_hub(r.hub_id) = dest_region THEN 2
    ELSE 4

\* regional_penalty of one flow, doubled: 0 -> 0.0, 1 -> 0.5, 2 -> 1.0
RegionalPenalty2(r, dest_region) ==
    IF get_region_for_factory(r.factory_id) = dest_region THEN 0
    ELSE IF get_region_for_hub(r.hub_id) = dest_region THEN 1
    ELSE 2

\* effective_cost of every flow (optimizer.py section 2) as <<num, den>>:
\*   (cw/W)*cost_norm + (tw/W)*time_norm + (rw/W)*regional_penalty
\* with den = 2 * W * cost_range * time_range (a zero range contributes 0
\* and counts as 1 in the denominator).
EffectiveCost(flows, country_code, weights) ==
    LET dest_region == get_region_for_country(country_code)
        cost_vals == {flows[i].total_landed_cost : i \in DOMAIN flows}
        cost_range == MaxOf(cost_vals) - MinOf(cost_vals)
        time_vals == {flows[i].transit_days : i \in DOMAIN flows}
        time_range == MaxOf(time_vals) - MinOf(time_vals)
        CR == IF cost_range > 0 THEN cost_range ELSE 1
        TR == IF time_range > 0 THEN time_range ELSE 1
        cost_norm(i) == IF cost_range > 0
                        THEN flows[i].total_landed_cost - MinOf(cost_vals) ELSE 0
        time_norm(i) == IF time_range > 0
                        THEN flows[i].transit_days - MinOf(time_vals) ELSE 0
        w_total == weights[1] + weights[2] + weights[3]
    IN  [i \in DOMAIN flows |->
            << 2 * weights[1] * cost_norm(i) * TR
               + 2 * weights[2] * time_norm(i) * CR
               + weights[3] * RegionalPenalty2(flows[i], dest_region) * CR * TR,
               2 * w_total * CR * TR >>]

\* flows["effective_cost"] = ...
WithEffectiveCost(flows, country_code, weights) ==
    LET ec == EffectiveCost(flows, country_code, weights)
    IN  [i \in DOMAIN flows |-> flows[i] @@ ("effective_cost" :> ec[i])]

available_factories(flows) == {flows[i].factory_id : i \in DOMAIN flows}
available_hubs(flows) == {flows[i].hub_id : i \in DOMAIN flows}

RECURSIVE SumOver(_, _)
\* sum of d.get(k, 0) over the keys k in S
SumOver(d, S) == IF S = {} THEN 0
                 ELSE LET k == CHOOSE j \in S : TRUE
                      IN  DictGet0(d, k) + SumOver(d, S \ {k})

\* variant: the capacity is added once per flow instead of once per factory
total_capacity_per_flow(flows, factory_cap) ==
    SumTo([i \in DOMAIN flows |-> DictGet0(factory_cap, flows[i].factory_id)], Len(flows))

total_capacity(flows, factory_cap) == SumOver(factory_cap, available_factories(flows))

\* ---- the MILP handed to the engine (optimizer.py section 4) ----
RECURSIVE Compositions(_, _)
\* all x : 1..n -> Nat (in 1/Grain units, lowBound 0) with sum(x) = total
Compositions(n, total) ==
    IF n = 0 THEN (IF total = 0 THEN {<<>>} ELSE {})
    ELSE UNION {{Append(s, k) : s \in Compositions(n - 1, total - k)} : k \in 0..total}

FlowsOfFactory(flows, f) == {i \in DOMAIN flows : flows[i].factory_id = f}
FlowsOfHub(flows, h) == {i \in DOMAIN flows : flows[i].hub_id = h}

MeetDemand(x, volume) == SumSeq(x) = volume * Grain

FactoryCap(flows, x, factory_cap) ==
    \A f \in available_factories(flows) :
        SumSet(x, FlowsOfFactory(flows, f)) <= DictGet0(factory_cap, f) * Grain

HubCap(flows, x, hub_thr) ==
    \A h \in available_hubs(flows) :
        SumSet(x, FlowsOfHub(flows, h)) <= DictGet0(hub_thr, h) * Grain

Activate(x, y, volume) == \A i \in DOMAIN x : x[i] <= volume * Grain * y[i]

\* variant: constraint 5 left out of the model
MinBatchOmitted(x, y, min_batch) == \A i \in DOMAIN x : x[i] >= 0

MinBatch(x, y, min_batch) == \A i \in DOMAIN x : x[i] >= min_batch * Grain * y[i]

\* variant: the problem without its MinBatch rows
ConstraintsWithoutMinBatch(flows, x, y, volume, min_batch, factory_cap, hub_thr) ==
    /\ MeetDemand(x, volume)
    /\ FactoryCap(flows, x, factory_cap)
    /\ HubCap(flows, x, hub_thr)
    /\ Activate(x, y, volume)

Constraints(flows, x, y, volume, min_batch, factory_cap, hub_thr) ==
    /\ MeetDemand(x, volume)
    /\ FactoryCap(flows, x, factory_cap)
    /\ HubCap(flows, x, hub_thr)
    /\ Activate(x, y, volume)
    /\ MinBatch(x, y, min_batch)

Objective(flows, x) ==
    SumTo([i \in DOMAIN flows |-> x[i] * flows[i].effective_cost[1]], Len(flows))

\* ---- the external engine (PuLP / CBC): any optimal assignment ----
Binary(n) == [1..n -> {0, 1}]

\* every <<x, y>> that satisfies the constraints (x summing to the volume
\* is enumerated first, then the activations y that go with it)
EngineFeasible(flows, volume, min_batch, factory_cap, hub_thr) ==
    LET n == Len(flows)
        xs == {x \in Compositions(n, volume * Grain) :
                  FactoryCap(flows, x, factory_cap) /\ HubCap(flows, x, hub_thr)}
    IN  UNION {{<<x, y>> : y \in {yy \in Binary(n) :
                    Constraints(flows, x, yy, volume, min_batch, factory_cap, hub_thr)}}
               : x \in xs}

\* the feasible <<x, y>> of least objective
EngineOptimal(flows, feas) ==
    LET best == MinOf({Objective(flows, a[1]) : a \in feas})
    IN  {a \in feas : Objective(flows, a[1]) = best}

\* ---- result extraction (optimizer.py section 6) ----
\* Python round() of k/Grain: nearest integer, ties to even
Round(k) ==
    LET q == k \div Grain
        r == k % Grain
    IN  IF 2 * r < Grain THEN q
        ELSE IF 2 * r > Grain THEN q + 1
        ELSE IF q % 2 = 0 THEN q ELSE q + 1

\* alloc > 0.5
AboveNoise(k) == 2 * k > Grain

ChosenEntry(row, alloc) ==
    LET units == Round(alloc)
    IN  [factory_id |-> row.factory_id,
         hub_id |-> row.hub_id,
         units_allocated |-> units,
         cost_per_unit |-> row.total_landed_cost,
         effective_cost_per_unit |-> row.effective_cost,
         total_cost |-> units * row.total_landed_cost,
         transit_days |-> row.transit_days]

RECURSIVE Extract(_, _)
\* the entries appended by the loop over flow_ids, in flow order
Extract(flows, x) ==
    IF flows = <<>> THEN <<>>
    ELSE LET n == Len(flows)
             front == Extract(SubSeq(flows, 1, n - 1), SubSeq(x, 1, n - 1))
         IN  IF AboveNoise(x[n]) THEN Append(front, ChosenEntry(flows[n], x[n]))
             ELSE front

RECURSIVE InsertByUnits(_, _)
\* insert e after every entry with units >= e's (stable, descending)
InsertByUnits(s, e) ==
    IF s = <<>> THEN <<e>>
    ELSE IF Head(s).units_allocated >= e.units_allocated
         THEN <<Head(s)>> \o InsertByUnits(Tail(s), e)
         ELSE <<e>> \o s

RECURSIVE SortByUnitsDesc(_)
\* chosen.sort(key=units_allocated, reverse=True)
SortByUnitsDesc(s) ==
    IF s = <<>> THEN <<>>
    ELSE InsertByUnits(SortByUnitsDesc(SubSeq(s, 1, Len(s) - 1)), s[Len(s)])

\* ---- status values ----
StatusNoFeasible == [text |-> "No feasible flows found", args |-> <<>>]
StatusInsufficient(cap, volume) ==
    [text |-> "Infeasible: total factory capacity ({}) < volume ({})",
     args |-> <<cap, volume>>]
LpStatus(s) == [text |-> s, args |-> <<>>]
LpStatusTexts == {"Not Solved", "Optimal", "Infeasible", "Unbounded", "Undefined"}

\* variant: the early return hands back the first row as an allocation
EmptyResultPartial(status, flows) ==
    LET chosen == [k \in DOMAIN flows \cap {1} |-> ChosenEntry(flows[k], Grain)]
    IN  [status |-> status, chosen_flows |-> chosen, total_cost |-> 0,
         total_units |-> SumSeq([k \in DOMAIN chosen |-> chosen[k].units_allocated]),
         feasible_flows |-> flows]

EmptyResult(status, flows) ==
    [status |-> status, chosen_flows |-> <<>>, total_cost |-> 0, total_units |-> 0,
     feasible_flows |-> flows]

\* the engine options of prob.solve(pulp.PULP_CBC_CMD(msg=0)): no time limit
PULP_CBC_CMD == [msg |-> 0, timeLimit |-> "None"]

NoEngine == [calls |-> 0, x |-> <<>>, y |-> <<>>, status |-> "Not Solved",
             options |-> PULP_CBC_CMD]
NoRanking == [chosen_flows |-> <<>>, other_available |-> <<>>,
              alternative_factories |-> <<>>, category_id |-> "None"]

\* ---- solve(): every <<SolverResult, engine trace>> a call can return ----
OptimalResult(flows, x) ==
    LET chosen == Extract(flows, x)
    IN  [status |-> LpStatus("Optimal"),
         chosen_flows |-> SortByUnitsDesc(chosen),
         total_cost |-> SumSeq([k \in DOMAIN chosen |-> chosen[k].total_cost]),
         total_units |-> SumSeq([k \in DOMAIN chosen |-> chosen[k].units_allocated]),
         feasible_flows |-> flows]

\* variant: the capacity pre-check runs before the empty-frame check
solve_capacity_first(flowsTable, capTable, hubTable, r) ==
    LET raw == get_feasible_flows(flowsTable, r.category_id, r.country_code)
        factory_cap == get_factory_capacity(capTable, r.category_id)
        hub_thr == get_hub_throughput(hubTable)
        flows == WithEffectiveCost(raw, r.country_code, r.weights)
        cap == total_capacity(flows, factory_cap)
    IN  IF cap < r.volume
        THEN {<<EmptyResult(StatusInsufficient(cap, r.volume), flows), NoEngine>>}
        ELSE IF raw = <<>>
        THEN {<<EmptyResult(StatusNoFeasible, <<>>), NoEngine>>}
        ELSE
            LET feas == EngineFeasible(flows, r.volume, r.min_batch, factory_cap, hub_thr)
            IN  IF feas = {}
                THEN {<<EmptyResult(LpStatus("Infeasible"), flows),
                        [calls |-> 1, x |-> <<>>, y |-> <<>>, status |-> "Infeasible",
                         options |-> PULP_CBC_CMD]>>}
                ELSE {<<OptimalResult(flows, a[1]),
                        [calls |-> 1, x |-> a[1], y |-> a[2], status |-> "Optimal",
                         options |-> PULP_CBC_CMD]>> :
                      a \in EngineOptimal(flows, feas)}

solve(flowsTable, capTable, hubTable, r) ==
    LET raw == get_feasible_flows(flowsTable, r.category_id, r.country_code)
    IN  IF raw = <<>>
        THEN {<<EmptyResult(StatusNoFeasible, <<>>), NoEngine>>}
        ELSE
        LET factory_cap == get_factory_capacity(capTable, r.category_id)
            hub_thr == get_hub_throughput(hubTable)
            flows == WithEffectiveCost(raw, r.country_code, r.weights)
            cap == total_capacity(flows, factory_cap)
        IN  IF cap < r.volume
            THEN {<<EmptyResult(StatusInsufficient(cap, r.volume), flows), NoEngine>>}
            ELSE
            LET feas == EngineFeasible(flows, r.volume, r.min_batch, factory_cap, hub_thr)
            IN  IF feas = {}
                THEN {<<EmptyResult(LpStatus("Infeasible"), flows),
                        [calls |-> 1, x |-> <<>>, y |-> <<>>, status |-> "Infeasible",
                         options |-> PULP_CBC_CMD]>>}
                ELSE {<<OptimalResult(flows, a[1]),
                        [calls |-> 1, x |-> a[1], y |-> a[2], status |-> "Optimal",
                         options |-> PULP_CBC_CMD]>> :
                      a \in EngineOptimal(flows, feas)}

\* sections 3-6 of solve() on a frame that already carries effective_cost:
\* the capacity pre-check, the engine run and the extraction
solve_scored(flows, factory_cap, hub_thr, r) ==
    LET cap == total_capacity(flows, factory_cap)
    IN  IF cap < r.volume
        THEN {<<EmptyResult(StatusInsufficient(cap, r.volume), flows), NoEngine>>}
        ELSE
        LET feas == EngineFeasible(flows, r.volume, r.min_batch, factory_cap, hub_thr)
        IN  IF feas = {}
            THEN {<<EmptyResult(LpStatus("Infeasible"), flows),
                    [calls |-> 1, x |-> <<>>, y |-> <<>>, status |-> "Infeasible",
                     options |-> PULP_CBC_CMD]>>}
            ELSE {<<OptimalResult(flows, a[1]),
                    [calls |-> 1, x |-> a[1], y |-> a[2], status |-> "Optimal",
                     options |-> PULP_CBC_CMD]>> :
                  a \in EngineOptimal(flows, feas)}

Solve ==
    /\ pc = "NotSolved"
    /\ \E r \in Requests :
        \E out \in solve(all_flows, factory_capacity, hub_throughput, r) :
            /\ req' = r
            /\ result' = out[1]
            /\ engine' = out[2]
    /\ pc' = "Solved"
    /\ UNCHANGED <<dataVars, ranked, sessions, kgVars>>

\* -------------------------------------------------------------------- ranker
\* variant: a hub in the destination's region earns no partial credit
_compute_composite_scores_no_hub_credit(flows, country_code, weights) ==
    LET dest_region == get_region_for_country(country_code)
        cost == {flows[i].total_landed_cost : i \in DOMAIN flows}
        days == {flows[i].transit_days : i \in DOMAIN flows}
        cost_range == MaxOf(cost) - MinOf(cost)
        days_range == MaxOf(days) - MinOf(days)
        CR == IF cost_range > 0 THEN cost_range ELSE 1
        DR == IF days_range > 0 THEN days_range ELSE 1
        cost_norm(i) == IF cost_range > 0 THEN flows[i].total_landed_cost - MinOf(cost) ELSE 0
        days_norm(i) == IF days_range > 0 THEN flows[i].transit_days - MinOf(days) ELSE 0
        regional_penalty2(i) ==
            IF get_region_for_factory(flows[i].factory_id) = dest_region THEN 0 ELSE 2
        w_total == weights[1] + weights[2] + weights[3]
    IN  [i \in DOMAIN flows |->
            << 2 * weights[1] * cost_norm(i) * DR
               + 2 * weights[2] * days_norm(i) * CR
               + weights[3] * regional_penalty2(i) * CR * DR,
               2 * w_total * CR * DR >>]

\* composite score of every flow (ranker.py _compute_composite_scores) as
\* <<num, den>>, den = 2 * W * cost_range * days_range
_compute_composite_scores(flows, country_code, weights) ==
    LET dest_region == get_region_for_country(country_code)
        cost == {flows[i].total_landed_cost : i \in DOMAIN flows}
        days == {flows[i].transit_days : i \in DOMAIN flows}
        cost_range == MaxOf(cost) - MinOf(cost)
        days_range == MaxOf(days) - MinOf(days)
        CR == IF cost_range > 0 THEN cost_range ELSE 1
        DR == IF days_range > 0 THEN days_range ELSE 1
        cost_norm(i) == IF cost_range > 0 THEN flows[i].total_landed_cost - MinOf(cost) ELSE 0
        days_norm(i) == IF days_range > 0 THEN flows[i].transit_days - MinOf(days) ELSE 0
        regional_penalty2(i) ==
            IF get_region_for_factory(flows[i].factory_id) = dest_region THEN 0
            ELSE IF get_region_for_hub(flows[i].hub_id) = dest_region THEN 1
            ELSE 2
        w_total == weights[1] + weights[2] + weights[3]
    IN  [i \in DOMAIN flows |->
            << 2 * weights[1] * cost_norm(i) * DR
               + 2 * weights[2] * days_norm(i) * CR
               + weights[3] * regional_penalty2(i) * CR * DR,
               2 * w_total * CR * DR >>]

\* a/b <= c/d for scores <<num, den>> (den > 0)
ScoreLeq(a, b) == a[1] * b[2] <= b[1] * a[2]

\* round(score, 4): the score in units of 1/10000, ties to even
Round4(sc) ==
    LET n == sc[1] * 10000
        q == n \div sc[2]
        r == n % sc[2]
    IN  IF 2 * r < sc[2] THEN q
        ELSE IF 2 * r > sc[2] THEN q + 1
        ELSE IF q % 2 = 0 THEN q ELSE q + 1

RECURSIVE Perms(_)
\* every ordering of the finite set S, as sequences
Perms(S) == IF S = {} THEN {<<>>}
            ELSE UNION {{<<e>> \o p : p \in Perms(S \ {e})} : e \in S}

\* DataFrame.sort_values(key) over the rows idx (a sequence of row indices):
\* every ascending order; the order of equal keys is the sort's to choose
SortValues(idx, score) ==
    {p \in Perms(Range(idx)) :
        \A k \in 1..(Len(p) - 1) : ScoreLeq(score[p[k]], score[p[k + 1]])}

\* variant: the first four rows
Head4(sq) == SubSeq(sq, 1, IF Len(sq) < 4 THEN Len(sq) ELSE 4)

Head3(sq) == SubSeq(sq, 1, IF Len(sq) < 3 THEN Len(sq) ELSE 3)

\* _get_restriction_reason: a MADE_IN rule between the factory's country and
\* the destination ("None" when there is none)
_get_restriction_reason(geo, factory_id, country_code) ==
    LET matches == {r \in geo :
                        /\ r.destination_country_code = country_code
                        /\ r.restricted_country_code = factory_country(factory_id)
                        /\ r.restriction_type = "MADE_IN"}
    IN  IF matches # {} THEN {r.reason : r \in matches} ELSE {"None"}

\* variant: the entry is rebuilt with its units recomputed from the cost
Tier1EntryRebuilt(cf) ==
    [cf EXCEPT !.units_allocated = cf.total_cost] @@
          [factory_country |-> factory_country(cf.factory_id),
           hub_country |-> IF cf.hub_id \in DOMAIN _hub_country
                           THEN _hub_country[cf.hub_id] ELSE ""]

Tier1Entry(cf) ==
    cf @@ [factory_country |-> factory_country(cf.factory_id),
           hub_country |-> IF cf.hub_id \in DOMAIN _hub_country
                           THEN _hub_country[cf.hub_id] ELSE ""]

Tier2Entry(row, rank) ==
    [rank |-> rank,
     factory_id |-> row.factory_id,
     factory_country |-> factory_country(row.factory_id),
     hub_id |-> row.hub_id,
     cost_per_unit |-> row.total_landed_cost,
     effective_cost_per_unit |-> row.effective_cost,
     transit_days |-> row.transit_days,
     composite_score |-> Round4(row.composite_score)]

Tier3Entry(row) ==
    [factory_id |-> row.factory_id,
     factory_country |-> factory_country(row.factory_id),
     best_hub_id |-> row.hub_id,
     cost_per_unit |-> row.total_landed_cost,
     transit_days |-> row.transit_days,
     composite_score |-> Round4(row.composite_score),
     status |-> "Available"]

BlockedEntry(fid, best, status) ==
    [factory_id |-> fid,
     factory_country |-> factory_country(fid),
     best_hub_id |-> best.hub_id,
     cost_per_unit |-> best.total_landed_cost,
     transit_days |-> best.transit_days,
     composite_score |-> -1,
     status |-> status]

NoFlowsEntry(fid, status) ==
    [factory_id |-> fid,
     factory_country |-> factory_country(fid),
     best_hub_id |-> "None",
     cost_per_unit |-> -1,
     transit_days |-> -1,
     composite_score |-> -1,
     status |-> status]

FactoryIds(entries) == {entries[k].factory_id : k \in DOMAIN entries}

\* keep the first row of every factory (drop_duplicates keep="first")
RECURSIVE DropDuplicates(_, _)
DropDuplicates(flows, idx) ==
    IF idx = <<>> THEN <<>>
    ELSE LET n == Len(idx)
             front == DropDuplicates(flows, SubSeq(idx, 1, n - 1))
         IN  IF \E k \in DOMAIN front : flows[front[k]].factory_id = flows[idx[n]].factory_id
             THEN front ELSE Append(front, idx[n])

RECURSIVE SortedSeq(_)
\* sorted(missing) over factory ids: "F1" < "F2" < "F3"
SortedSeq(S) ==
    IF S = {} THEN <<>>
    ELSE LET m == CHOOSE a \in S : \A b \in S : \/ a = b
                                                 \/ (a = "F1")
                                                 \/ (a = "F2" /\ b = "F3")
         IN  <<m>> \o SortedSeq(S \ {m})

\* the entries appended for the factories in missing (blocked factories)
RECURSIVE BlockedEntries(_, _, _, _, _)
BlockedEntries(missing, flowsTable, geo, category_id, country_code) ==
    IF missing = <<>> THEN {<<>>}
    ELSE LET fid == Head(missing)
             all_cat_country == {k \in DOMAIN flowsTable :
                                    /\ flowsTable[k].category_id = category_id
                                    /\ flowsTable[k].country_code = country_code}
             factory_flows == {k \in all_cat_country : flowsTable[k].factory_id = fid}
             reasons == _get_restriction_reason(geo, fid, country_code)
             statuses == IF reasons # {"None"} THEN {<<"Restricted: ", g>> : g \in reasons}
                         ELSE {<<"Exceeds lead time">>}
             \* sort_values("total_landed_cost").iloc[0]
             bests == {k \in factory_flows : \A j \in factory_flows :
                          flowsTable[k].total_landed_cost <= flowsTable[j].total_landed_cost}
             firsts == IF factory_flows # {}
                       THEN {BlockedEntry(fid, flowsTable[k], st) : k \in bests, st \in statuses}
                       ELSE {NoFlowsEntry(fid, st) : st \in statuses}
         IN  {<<e>> \o rest : e \in firsts,
                rest \in BlockedEntries(Tail(missing), flowsTable, geo, category_id, country_code)}

\* rank_flows on an empty feasible_flows frame: the early return
RankEmpty ==
    /\ pc = "Solved"
    /\ result.feasible_flows = <<>>
    /\ \E category_id \in {"None", req.category_id} :
        ranked' = [chosen_flows |-> <<>>, other_available |-> <<>>,
                   alternative_factories |-> <<>>, category_id |-> category_id]
    /\ pc' = "Ranked"
    /\ UNCHANGED <<dataVars, req, result, engine, sessions, kgVars>>

\* chosen_keys: the (factory, hub) pairs of the chosen flows
ChosenKeys(chosen_flows) ==
    {<<chosen_flows[k].factory_id, chosen_flows[k].hub_id>> : k \in DOMAIN chosen_flows}

\* variant: the chosen pairs are not taken out
NotChosenUnfiltered(flows, chosen_keys) ==
    [i \in DOMAIN flows |-> i]

\* the row indices of the flows not in Tier 1, in frame order (before the sort)
NotChosen(flows, chosen_keys) ==
    FilterSeq([i \in DOMAIN flows |-> i],
        {i \in DOMAIN flows : <<flows[i].factory_id, flows[i].hub_id>> \notin chosen_keys})

\* variant: only the factories of Tier 1 count as used
UsedFactoriesChosenOnly(chosen_flows, tier2_factories_used) ==
    FactoryIds(chosen_flows)

\* used_factories = factories of Tier 1 | factories of Tier 2
UsedFactories(chosen_flows, tier2_factories_used) ==
    FactoryIds(chosen_flows) \cup tier2_factories_used

\* variant: the used factories are not taken out
Tier3CandidatesUnfiltered(flows, remaining, used_factories) ==
    remaining

\* tier3_candidates = remaining[~remaining["factory_id"].isin(used_factories)]
Tier3Candidates(flows, remaining, used_factories) ==
    FilterSeq(remaining,
        {k \in DOMAIN remaining : flows[remaining[k]].factory_id \notin used_factories})

\* missing = all_factory_ids - used_factories - tier3_factory_ids
MissingFactories(used_factories, tier3_factory_ids) ==
    (Factories \ used_factories) \ tier3_factory_ids

\* rank_flows on a non-empty frame, called as the solver page calls it
\* (same destination and weights as the solve), with or without category_id
RankFlows ==
    /\ pc = "Solved"
    /\ result.feasible_flows # <<>>
    /\ \E category_id \in {"None", req.category_id} :
        LET cs == _compute_composite_scores(result.feasible_flows, req.country_code, req.weights)
            flows == [i \in DOMAIN result.feasible_flows |->
                        result.feasible_flows[i] @@ ("composite_score" :> cs[i])]
            chosen_keys == ChosenKeys(result.chosen_flows)
            tier1 == [k \in DOMAIN result.chosen_flows |-> Tier1Entry(result.chosen_flows[k])]
        IN  \E remaining \in SortValues(NotChosen(flows, chosen_keys), cs) :
            LET top == Head3(remaining)
                tier2 == [k \in DOMAIN top |-> Tier2Entry(flows[top[k]], k + 1)]
                tier2_factories_used == {flows[top[k]].factory_id : k \in DOMAIN top}
                used_factories == UsedFactories(result.chosen_flows, tier2_factories_used)
                tier3_candidates == Tier3Candidates(flows, remaining, used_factories)
            IN  \E resorted \in SortValues(tier3_candidates, cs) :
                LET best_per_factory == DropDuplicates(flows, resorted)
                    tier3 == [k \in DOMAIN best_per_factory |-> Tier3Entry(flows[best_per_factory[k]])]
                    missing == IF category_id = "None" THEN {}
                               ELSE MissingFactories(used_factories, FactoryIds(tier3))
                IN  \E blocked \in BlockedEntries(SortedSeq(missing), all_flows, geopolitical,
                                                  category_id, req.country_code) :
                        ranked' = [chosen_flows |-> tier1,
                                   other_available |-> tier2,
                                   alternative_factories |-> tier3 \o blocked,
                                   category_id |-> category_id]
    /\ pc' = "Ranked"
    /\ UNCHANGED <<dataVars, req, result, engine, sessions, kgVars>>

\* ------------------------------------------------- concurrent solve calls
\* Streamlit runs every browser session's script in its own thread over the
\* one cached SupplyChainData; a session's solve() is split at its reads and
\* writes of that object.
Sessions == {1, 2}

IdleSession == [pc |-> "Idle", req |-> NoRequest, flows |-> <<>>,
                result |-> EmptyResult(LpStatus("Not Solved"), <<>>)]

SessionRequests == {r \in Requests : r.volume \in {1, 2} /\ r.min_batch = 1}

\* variant: the frame is a view, so the new column lands in the shared rows
SharedTableAfterScoringView(flowsTable, frame) ==
    [k \in DOMAIN flowsTable |->
        IF \E i \in DOMAIN frame :
                /\ frame[i].factory_id = flowsTable[k].factory_id
                /\ frame[i].hub_id = flowsTable[k].hub_id
                /\ frame[i].country_code = flowsTable[k].country_code
                /\ frame[i].category_id = flowsTable[k].category_id
        THEN LET i == CHOOSE j \in DOMAIN frame :
                        /\ frame[j].factory_id = flowsTable[k].factory_id
                        /\ frame[j].hub_id = flowsTable[k].hub_id
                        /\ frame[j].country_code = flowsTable[k].country_code
                        /\ frame[j].category_id = flowsTable[k].category_id
             IN  ("effective_cost" :> frame[i].effective_cost) @@ flowsTable[k]
        ELSE flowsTable[k]]

\* data.all_flows after solve() assigns flows["effective_cost"]: the frame is
\* the .copy() made by get_feasible_flows, so the shared table keeps its rows
SharedTableAfterScoring(flowsTable, frame) == flowsTable

\* flows = data.get_feasible_flows(...) and the empty-frame return
GetFlows(s) ==
    /\ sessions[s].pc = "Idle"
    /\ \E r \in SessionRequests :
        LET raw == get_feasible_flows(all_flows, r.category_id, r.country_code)
        IN  sessions' = [sessions EXCEPT ![s] =
                IF raw = <<>>
                THEN [pc |-> "Done", req |-> r, flows |-> <<>>,
                      result |-> EmptyResult(StatusNoFeasible, <<>>)]
                ELSE [pc |-> "Loaded", req |-> r, flows |-> raw,
                      result |-> IdleSession.result]]
    /\ UNCHANGED <<dataVars, pageVars, kgVars>>

\* section 2 of solve(): the effective_cost column is assigned to the frame
Score(s) ==
    /\ sessions[s].pc = "Loaded"
    /\ LET scored == WithEffectiveCost(sessions[s].flows, sessions[s].req.country_code,
                                       sessions[s].req.weights)
       IN  /\ sessions' = [sessions EXCEPT ![s].flows = scored, ![s].pc = "Scored"]
           /\ all_flows' = SharedTableAfterScoring(all_flows, scored)
    /\ UNCHANGED <<factory_capacity, hub_throughput, geopolitical, pageVars, kgVars>>

\* sections 3-6 of solve() on the session's own frame and variable set
Finish(s) ==
    /\ sessions[s].pc = "Scored"
    /\ \E out \in solve_scored(sessions[s].flows,
                                get_factory_capacity(factory_capacity, sessions[s].req.category_id),
                                get_hub_throughput(hub_throughput), sessions[s].req) :
        sessions' = [sessions EXCEPT ![s].result = out[1], ![s].pc = "Done"]
    /\ UNCHANGED <<dataVars, pageVars, kgVars>>

\* --------------------------------------------------------- knowledge graph
Regions == {"NAM", "EUR", "NEA"}
UnknownId == "ZZ"

\* node ids carry their type prefix: f"factory:{fid}", f"hub:{hid}", ...
NodeId(node_type, id) == <<node_type, id>>

\* nx.DiGraph(): node -> attributes, <<u, v>> -> attributes (one edge per pair)
nx_DiGraph == [nodes |-> <<>>, edges |-> <<>>]

NoAnswer == [query |-> "none", args |-> <<>>, answer |-> {}]

\* DiGraph.add_edge(u, v, **attrs): missing end nodes are created without
\* attributes; an edge that already joins u to v has its attributes updated
add_edge(g, u, v, attrs) ==
    [nodes |-> g.nodes @@ [n \in {u, v} |-> <<>>],
     edges |-> (<<u, v>> :> IF <<u, v>> \in DOMAIN g.edges
                            THEN attrs @@ g.edges[<<u, v>>] ELSE attrs) @@ g.edges]

\* the rows of data.geopolitical in file order (MADE_IN before ROUTED_THROUGH)
geopolitical_rows(geo) ==
    LET made_in == CHOOSE r \in RestrictionRecords : r.restriction_type = "MADE_IN"
        routed == CHOOSE r \in RestrictionRecords : r.restriction_type = "ROUTED_THROUGH"
        file == <<made_in, routed>>
    IN  FilterSeq(file, {k \in DOMAIN file : file[k] \in geo})

RECURSIVE AddRestricts(_, _)
\* the RESTRICTS loop of _build
AddRestricts(g, rows) ==
    IF rows = <<>> THEN g
    ELSE AddRestricts(
            add_edge(g, NodeId("country", rows[1].destination_country_code),
                        NodeId("country", rows[1].restricted_country_code),
                     [edge_type |-> "RESTRICTS",
                      restriction_type |-> rows[1].restriction_type,
                      reason |-> rows[1].reason]),
            Tail(rows))

\* variant: the edge keeps the transport cost of the pair's last row
min_transport_cost_last_row(flowsTable, factory_id, hub_id) ==
    LET rows == {k \in DOMAIN flowsTable : /\ flowsTable[k].factory_id = factory_id
                                           /\ flowsTable[k].hub_id = hub_id}
    IN  flowsTable[MaxOf(rows)].transport_cost

\* groupby(["factory_id", "hub_id"]).agg(min_transport_cost=("transport_cost", "min"))
min_transport_cost(flowsTable, factory_id, hub_id) ==
    MinOf({flowsTable[k].transport_cost : k \in
            {j \in DOMAIN flowsTable : /\ flowsTable[j].factory_id = factory_id
                                       /\ flowsTable[j].hub_id = hub_id}})

\* groupby(["hub_id", "country_code"]).agg(min_last_mile_cost=("last_mile_cost", "min"))
min_last_mile_cost(flowsTable, hub_id, country_code) ==
    MinOf({flowsTable[k].last_mile_cost : k \in
            {j \in DOMAIN flowsTable : /\ flowsTable[j].hub_id = hub_id
                                       /\ flowsTable[j].country_code = country_code}})

\* SupplyChainGraph._build
_build(flowsTable, hubTable, geo) ==
    LET region_nodes == {NodeId("region", r) : r \in Regions}
        country_nodes == {NodeId("country", c) : c \in Countries}
        factory_nodes == {NodeId("factory", f) : f \in Factories}
        hub_nodes == {NodeId("hub", h) : h \in Hubs}
        region_of(n) == IF n[1] = "country" THEN _country_region[n[2]]
                        ELSE IF n[1] = "factory" THEN _factory_region[n[2]]
                        ELSE IF n[1] = "hub" THEN _hub_region[n[2]]
                        ELSE n[2]
        attrs(n) == IF n[1] = "hub"
                    THEN [node_type |-> "hub", region_id |-> region_of(n),
                          monthly_throughput_capacity |-> hubTable[n[2]]]
                    ELSE [node_type |-> n[1], region_id |-> region_of(n)]
        in_region == {<<n, NodeId("region", region_of(n))>> :
                        n \in country_nodes \cup factory_nodes \cup hub_nodes}
        ships_to == {<<NodeId("factory", flowsTable[k].factory_id),
                       NodeId("hub", flowsTable[k].hub_id)>> : k \in DOMAIN flowsTable}
        delivers_to == {<<NodeId("hub", flowsTable[k].hub_id),
                          NodeId("country", flowsTable[k].country_code)>> :
                            k \in DOMAIN flowsTable}
        days(e, fld1, fld2) ==
            MinOf({flowsTable[k].transit_days : k \in
                    {j \in DOMAIN flowsTable : /\ flowsTable[j][fld1] = e[1][2]
                                               /\ flowsTable[j][fld2] = e[2][2]}})
        edge_attrs(e) ==
            IF e \in in_region THEN [edge_type |-> "IN_REGION"]
            ELSE IF e \in ships_to
            THEN [edge_type |-> "SHIPS_TO",
                  min_transport_cost |-> min_transport_cost(flowsTable, e[1][2], e[2][2]),
                  min_transit_days |-> days(e, "factory_id", "hub_id")]
            ELSE [edge_type |-> "DELIVERS_TO",
                  min_last_mile_cost |-> min_last_mile_cost(flowsTable, e[1][2], e[2][2]),
                  min_transit_days |-> days(e, "hub_id", "country_code")]
        g0 == [nodes |-> [n \in region_nodes \cup country_nodes \cup factory_nodes
                                \cup hub_nodes |-> attrs(n)],
               edges |-> [e \in in_region \cup ships_to \cup delivers_to |-> edge_attrs(e)]]
    IN  AddRestricts(g0, geopolitical_rows(geo))

\* graph.edges(n, data=True) and graph.in_edges(n, data=True) of one type
OutEdges(g, n, edge_type) ==
    {e \in DOMAIN g.edges : e[1] = n /\ g.edges[e].edge_type = edge_type}
InEdges(g, n, edge_type) ==
    {e \in DOMAIN g.edges : e[2] = n /\ g.edges[e].edge_type = edge_type}

\* variant: every country the hub delivers to is reported
impact_analysis_all_served(g, hub_id) ==
    LET hub_node == NodeId("hub", hub_id)
    IN  IF hub_node \notin DOMAIN g.nodes THEN {}
        ELSE {e[2][2] : e \in {d \in OutEdges(g, hub_node, "DELIVERS_TO") :
                                    d[2][1] = "country"}}

impact_analysis(g, hub_id) ==
    LET hub_node == NodeId("hub", hub_id)
    IN  IF hub_node \notin DOMAIN g.nodes THEN {}
        ELSE
        LET served == {e[2] : e \in {d \in OutEdges(g, hub_node, "DELIVERS_TO") :
                                        d[2][1] = "country"}}
            serving_hubs(country_node) ==
                {e[1] : e \in InEdges(g, country_node, "DELIVERS_TO")}
        IN  {c[2] : c \in {country_node \in served :
                            /\ Cardinality(serving_hubs(country_node)) = 1
                            /\ hub_node \in serving_hubs(country_node)}}

find_all_routes(g, factory_id, country_code) ==
    LET factory_node == NodeId("factory", factory_id)
        country_node == NodeId("country", country_code)
    IN  IF factory_node \notin DOMAIN g.nodes THEN {}
        ELSE {[factory_id |-> factory_id, hub_id |-> s[2][2], country_code |-> country_code,
               transport_cost |-> g.edges[s].min_transport_cost,
               last_mile_cost |-> g.edges[<<s[2], country_node>>].min_last_mile_cost] :
                s \in {e \in OutEdges(g, factory_node, "SHIPS_TO") :
                         <<e[2], country_node>> \in OutEdges(g, e[2], "DELIVERS_TO")}}

\* variant: every ships-to edge into a serving hub is counted
supply_diversity_per_route(g, country_code) ==
    LET country_node == NodeId("country", country_code)
        feeding == UNION {InEdges(g, d[1], "SHIPS_TO") :
                            d \in InEdges(g, country_node, "DELIVERS_TO")}
        region(factory_node) == IF "region_id" \in DOMAIN g.nodes[factory_node]
                                THEN g.nodes[factory_node].region_id ELSE "unknown"
    IN  [r \in {region(s[1]) : s \in feeding} |->
            Cardinality({s \in feeding : region(s[1]) = r})]

supply_diversity(g, country_code) ==
    LET country_node == NodeId("country", country_code)
        feeding == {s[1] : s \in UNION {InEdges(g, d[1], "SHIPS_TO") :
                                          d \in InEdges(g, country_node, "DELIVERS_TO")}}
        region(factory_node) == IF "region_id" \in DOMAIN g.nodes[factory_node]
                                THEN g.nodes[factory_node].region_id ELSE "unknown"
    IN  [r \in {region(f) : f \in feeding} |->
            Cardinality({f \in feeding : region(f) = r})]

get_restriction_graph(g, country_code) ==
    {[restricted_country |-> e[2][2],
      restriction_type |-> g.edges[e].restriction_type,
      reason |-> g.edges[e].reason] :
        e \in OutEdges(g, NodeId("country", country_code), "RESTRICTS")}

hub_utilization_risk(g, hub_id) ==
    LET hub_node == NodeId("hub", hub_id)
        feeding_factories == {e[1][2] : e \in InEdges(g, hub_node, "SHIPS_TO")}
        served_countries == {e[2][2] : e \in OutEdges(g, hub_node, "DELIVERS_TO")}
    IN  [hub_id |-> hub_id,
         feeding_factories |-> feeding_factories,
         served_countries |-> served_countries,
         factory_count |-> Cardinality(feeding_factories),
         country_count |-> Cardinality(served_countries)]

\* the disruption analysis of the graph page without a category filter
disruption_analysis(g, disabled_factories, disabled_hubs) ==
    LET active_factories == Factories \ disabled_factories
        active_hubs == Hubs \ disabled_hubs
        remaining_routes ==
            {<<r.factory_id, r.hub_id, r.country_code>> :
                r \in {q \in UNION {find_all_routes(g, fid, cc) :
                                      fid \in active_factories, cc \in Countries} :
                         q.hub_id \in active_hubs}}
        countries_with_supply == {r[3] : r \in remaining_routes}
    IN  [remaining_routes |-> remaining_routes,
         affected_countries |-> Countries \ countries_with_supply]

\* variant: the disabled nodes and their edges are deleted from the graph
GraphAfterDisruptionRemoved(g, disabled_factories, disabled_hubs) ==
    LET gone == {NodeId("factory", f) : f \in disabled_factories}
                    \cup {NodeId("hub", h) : h \in disabled_hubs}
    IN  [nodes |-> [n \in DOMAIN g.nodes \ gone |-> g.nodes[n]],
         edges |-> [e \in {d \in DOMAIN g.edges : d[1] \notin gone /\ d[2] \notin gone}
                        |-> g.edges[e]]]

\* kg.graph after the disruption analysis: active_factories and active_hubs
\* are local sets used as filters, the graph object is only read
GraphAfterDisruption(g, disabled_factories, disabled_hubs) == g

\* ontology.get_restrictions_for_country
get_restrictions_for_country(geo, country_code) ==
    {r \in geo : r.destination_country_code = country_code}

\* what a caller sees when the call raises instead of returning
Raised == [raised |-> TRUE]

\* Python's None where an entity record is expected
None == [is_none |-> TRUE]

\* ontology.factories / ontology.hubs: id -> entity
FactoryEntity(f) == [factory_id |-> f, country_code |-> _factory_country[f],
                     region_id |-> _factory_region[f]]
HubEntity(h) == [hub_id |-> h, country_code |-> _hub_country[h],
                 region_id |-> _hub_region[h]]

\* variant: the dictionary is indexed, so an unknown id raises KeyError
get_factory_indexed(factory_id) ==
    IF factory_id \in Factories THEN FactoryEntity(factory_id) ELSE Raised

\* ontology.get_factory: dict.get, None for an unknown id
get_factory(factory_id) ==
    IF factory_id \in Factories THEN FactoryEntity(factory_id) ELSE None

get_hub(hub_id) == IF hub_id \in Hubs THEN HubEntity(hub_id) ELSE None

RECURSIVE FirstViolation(_, _, _, _)
\* the loop of validate_flow over the destination's restrictions, in list order
FirstViolation(rows, factory, hub, country_code) ==
    IF rows = <<>> THEN <<TRUE, <<"Flow is valid">> >>
    ELSE LET r == rows[1]
         IN  IF r.restriction_type = "MADE_IN"
                    /\ factory.country_code = r.restricted_country_code
             THEN <<FALSE, <<"MADE_IN restriction", country_code,
                             r.restricted_country_code, r.reason>> >>
             ELSE IF r.restriction_type = "ROUTED_THROUGH"
                        /\ hub.country_code = r.restricted_country_code
             THEN <<FALSE, <<"ROUTED_THROUGH restriction", country_code,
                             r.restricted_country_code, r.reason>> >>
             ELSE FirstViolation(Tail(rows), factory, hub, country_code)

\* the destination's restrictions in the order of ontology.restrictions
restrictions_for_country_rows(geo, country_code) ==
    LET rows == geopolitical_rows(geo)
    IN  FilterSeq(rows, {k \in DOMAIN rows :
                            rows[k].destination_country_code = country_code})

\* variant: only the MADE_IN rules are looked at
validate_flow_made_in_only(geo, factory_id, hub_id, country_code) ==
    LET factory == get_factory(factory_id)
        hub == get_hub(hub_id)
    IN  IF factory = None \/ hub = None
        THEN <<FALSE, <<"Unknown factory or hub", factory_id, hub_id>> >>
        ELSE LET rows == restrictions_for_country_rows(geo, country_code)
             IN  FirstViolation(FilterSeq(rows, {k \in DOMAIN rows :
                                                   rows[k].restriction_type = "MADE_IN"}),
                                factory, hub, country_code)

\* ontology.validate_flow: <<is_valid, reason>>
validate_flow(geo, factory_id, hub_id, country_code) ==
    LET factory == get_factory(factory_id)
        hub == get_hub(hub_id)
    IN  IF factory = None \/ hub = None
        THEN <<FALSE, <<"Unknown factory or hub", factory_id, hub_id>> >>
        ELSE FirstViolation(restrictions_for_country_rows(geo, country_code),
                            factory, hub, country_code)

\* the answer of a query, by name
Answer(g, query, args) ==
    IF query = "impact_analysis" THEN impact_analysis(g, args[1])
    ELSE IF query = "find_all_routes" THEN find_all_routes(g, args[1], args[2])
    ELSE IF query = "supply_diversity" THEN supply_diversity(g, args[1])
    ELSE IF query = "get_restriction_graph" THEN get_restriction_graph(g, args[1])
    ELSE IF query = "hub_utilization_risk" THEN hub_utilization_risk(g, args[1])
    ELSE IF query = "disruption_analysis" THEN disruption_analysis(g, args[1], args[2])
    ELSE IF query = "get_factory" THEN get_factory(args[1])
    ELSE IF query = "validate_flow"
    THEN validate_flow(geopolitical, args[1], args[2], args[3])
    ELSE {}

Ask(query, args) ==
    /\ kg_answer' = [query |-> query, args |-> args, answer |-> Answer(graph, query, args)]
    /\ graph' = graph
    /\ UNCHANGED <<dataVars, pageVars, sessions>>

ImpactAnalysis == \E h \in Hubs \cup {UnknownId} : Ask("impact_analysis", <<h>>)
FindAllRoutes ==
    \E f \in Factories \cup {UnknownId}, cc \in Countries \cup {UnknownId} :
        Ask("find_all_routes", <<f, cc>>)
SupplyDiversity == \E cc \in Countries \cup {UnknownId} : Ask("supply_diversity", <<cc>>)
GetRestrictionGraph ==
    \E cc \in Countries \cup {UnknownId} : Ask("get_restriction_graph", <<cc>>)
HubUtilizationRisk == \E h \in Hubs \cup {UnknownId} : Ask("hub_utilization_risk", <<h>>)

\* the ontology built from the same snapshot
GetFactory == \E f \in Factories \cup {UnknownId} : Ask("get_factory", <<f>>)
ValidateFlow ==
    \E f \in Factories \cup {UnknownId}, h \in Hubs \cup {UnknownId},
       cc \in Countries \cup {UnknownId} :
        Ask("validate_flow", <<f, h, cc>>)

DisruptionAnalysis ==
    \E disabled_factories \in SUBSET Factories, disabled_hubs \in SUBSET Hubs :
        /\ kg_answer' = [query |-> "disruption_analysis",
                         args |-> <<disabled_factories, disabled_hubs>>,
                         answer |-> disruption_analysis(graph, disabled_factories,
                                                        disabled_hubs)]
        /\ graph' = GraphAfterDisruption(graph, disabled_factories, disabled_hubs)
        /\ UNCHANGED <<dataVars, pageVars, sessions>>

\* ------------------------------------------------------------------- spec
Init ==
    /\ \E mfg \in [Factories -> {1, MaxMfg}], geo \in SUBSET RestrictionRecords,
          max_lt \in (MaxLead - 2)..MaxLead :
        /\ geopolitical = geo
        /\ all_flows = generate_all_flows(mfg, geo, max_lt)
    /\ \E cap \in [Factories -> {1, MaxCap}] :
        factory_capacity = [k \in {<<f, "CAT01">> : f \in Factories} \cup {<<"F3", "CAT02">>}
                                |-> cap[k[1]]]
    /\ \E thr \in {1, MaxThr} : hub_throughput = [h \in Hubs |-> thr]
    /\ pc = "NotSolved"
    /\ req = NoRequest
    /\ result = EmptyResult(LpStatus("Not Solved"), <<>>)
    /\ engine = NoEngine
    /\ ranked = NoRanking
    /\ sessions = [s \in Sessions |-> IdleSession]
    /\ graph = nx_DiGraph
    /\ kg_answer = NoAnswer

Next ==
    \/ Solve
    \/ RankEmpty
    \/ RankFlows

Spec == Init /\ [][Next]_vars

\* the solver page over the snapshot with every factory-hub pair
InitRank ==
    /\ \E mfg \in [Factories -> {1, MaxMfg}], max_lt \in {MaxLead - 2, MaxLead} :
        /\ geopolitical = {}
        /\ all_flows = generate_wide_flows(mfg, {}, max_lt)
    /\ factory_capacity = [k \in {<<f, "CAT01">> : f \in Factories} |-> 1]
    /\ hub_throughput = [h \in Hubs |-> MaxThr]
    /\ pc = "NotSolved"
    /\ req = NoRequest
    /\ result = EmptyResult(LpStatus("Not Solved"), <<>>)
    /\ engine = NoEngine
    /\ ranked = NoRanking
    /\ sessions = [s \in Sessions |-> IdleSession]
    /\ graph = nx_DiGraph
    /\ kg_answer = NoAnswer

SpecRank == InitRank /\ [][Next]_vars

\* the solver page over a snapshot in which every factory and every hub can
\* take the largest request alone
InitAmple ==
    /\ \E mfg \in [Factories -> {1, MaxMfg}], geo \in {{}, RestrictionRecords},
          max_lt \in {MaxLead - 2, MaxLead} :
        /\ geopolitical = geo
        /\ all_flows = generate_all_flows(mfg, geo, max_lt)
    /\ factory_capacity = [k \in {<<f, "CAT01">> : f \in Factories} \cup {<<"F3", "CAT02">>}
                                |-> MaxVolume]
    /\ hub_throughput = [h \in Hubs |-> MaxVolume]
    /\ pc = "NotSolved"
    /\ req = NoRequest
    /\ result = EmptyResult(LpStatus("Not Solved"), <<>>)
    /\ engine = NoEngine
    /\ ranked = NoRanking
    /\ sessions = [s \in Sessions |-> IdleSession]
    /\ graph = nx_DiGraph
    /\ kg_answer = NoAnswer

SpecAmple == InitAmple /\ [][Next]_vars

\* two sessions solving against one loaded snapshot, step by step
InitConc ==
    /\ \E mfg \in {[f \in Factories |-> 1], [f \in Factories |-> IF f = "F1" THEN MaxMfg ELSE 1]},
          geo \in {{}, RestrictionRecords} :
        /\ geopolitical = geo
        /\ all_flows = generate_all_flows(mfg, geo, MaxLead)
    /\ \E c1 \in {1, MaxCap} :
        factory_capacity = [k \in {<<f, "CAT01">> : f \in Factories} \cup {<<"F3", "CAT02">>}
                                |-> IF k[1] = "F1" THEN c1 ELSE MaxCap]
    /\ hub_throughput = [h \in Hubs |-> MaxThr]
    /\ pc = "NotSolved"
    /\ req = NoRequest
    /\ result = EmptyResult(LpStatus("Not Solved"), <<>>)
    /\ engine = NoEngine
    /\ ranked = NoRanking
    /\ sessions = [s \in Sessions |-> IdleSession]
    /\ graph = nx_DiGraph
    /\ kg_answer = NoAnswer

NextConc ==
    \/ \E s \in Sessions : GetFlows(s)
    \/ \E s \in Sessions : Score(s)
    \/ \E s \in Sessions : Finish(s)

SpecConc == InitConc /\ [][NextConc]_vars

\* the graph page: the graph is built once from the snapshot, then queried
InitGraph ==
    /\ \E geo \in SUBSET RestrictionRecords :
        /\ geopolitical = geo
        /\ all_flows = generate_all_flows([f \in Factories |-> 1], geo, MaxLead)
    /\ factory_capacity = [k \in {<<f, "CAT01">> : f \in Factories} \cup {<<"F3", "CAT02">>}
                                |-> MaxCap]
    /\ \E thr \in {1, MaxThr} : hub_throughput = [h \in Hubs |-> thr]
    /\ pc = "NotSolved"
    /\ req = NoRequest
    /\ result = EmptyResult(LpStatus("Not Solved"), <<>>)
    /\ engine = NoEngine
    /\ ranked = NoRanking
    /\ sessions = [s \in Sessions |-> IdleSession]
    /\ graph = _build(all_flows, hub_throughput, geopolitical)
    /\ kg_answer = NoAnswer

NextGraph ==
    \/ ImpactAnalysis
    \/ FindAllRoutes
    \/ SupplyDiversity
    \/ GetRestrictionGraph
    \/ HubUtilizationRisk
    \/ DisruptionAnalysis
    \/ GetFactory
    \/ ValidateFlow

SpecGraph == InitGraph /\ [][NextGraph]_vars

\* ---------------------------------------------------------------- properties
Solved == pc \in {"Solved", "Ranked"}
IsOptimal == Solved /\ result.status = LpStatus("Optimal")

\* the rows of the master table for the requested category and destination
RequestRows ==
    {k \in DOMAIN all_flows : /\ all_flows[k].category_id = req.category_id
                              /\ all_flows[k].country_code = req.country_code}
AllowedRows ==
    {k \in RequestRows : /\ all_flows[k].is_geopolitically_restricted = 0
                         /\ all_flows[k].is_lead_time_feasible = 1}

\* units the result allocates over the entries at the positions in K
UnitsAt(K) ==
    SumTo([k \in DOMAIN result.chosen_flows |->
              IF k \in K THEN result.chosen_flows[k].units_allocated ELSE 0],
          Len(result.chosen_flows))

TotalAllocated == UnitsAt(DOMAIN result.chosen_flows)
UnitsOfFactory(f) ==
    UnitsAt({k \in DOMAIN result.chosen_flows : result.chosen_flows[k].factory_id = f})
UnitsOfHub(h) ==
    UnitsAt({k \in DOMAIN result.chosen_flows : result.chosen_flows[k].hub_id = h})

\* C1: every Optimal result allocates exactly the requested volume: the
\* units_allocated of the emitted entries, and the reported total_units, sum
\* to the volume, also after each value is rounded to the nearest unit.
C1_UnitsEqualVolume ==
    IsOptimal => (TotalAllocated = req.volume /\ result.total_units = req.volume)

\* C2: in every Optimal result the emitted (rounded) units of one factory
\* sum to at most its capacity for the category, and the emitted units
\* through one hub sum to at most its throughput.
C2_WithinCapacityAndThroughput ==
    IsOptimal =>
        /\ \A f \in Factories :
            UnitsOfFactory(f) <= (IF <<f, req.category_id>> \in DOMAIN factory_capacity
                                  THEN factory_capacity[<<f, req.category_id>>] ELSE 0)
        /\ \A h \in Hubs : UnitsOfHub(h) <= hub_throughput[h]

\* the flows of the frame that produced an allocation entry
HasEntry(i) ==
    \E k \in DOMAIN result.chosen_flows :
        /\ result.chosen_flows[k].factory_id = result.feasible_flows[i].factory_id
        /\ result.chosen_flows[k].hub_id = result.feasible_flows[i].hub_id

\* C3: every emitted entry carries at least min_batch units and never 0;
\* a flow whose solver value is at or below the noise threshold 0.5 has no
\* entry, and a flow with an entry was activated (y = 1).
C3_EntriesAtLeastMinBatch ==
    IsOptimal =>
        /\ \A k \in DOMAIN result.chosen_flows :
            /\ result.chosen_flows[k].units_allocated >= req.min_batch
            /\ result.chosen_flows[k].units_allocated # 0
        /\ \A i \in DOMAIN result.feasible_flows :
            /\ 2 * engine.x[i] <= Grain => ~HasEntry(i)
            /\ HasEntry(i) => engine.y[i] = 1

\* C3 witness: an Optimal result that splits the volume over two entries
\* under min_batch 2 while another flow stays at the noise level
C3_Witness ==
    /\ IsOptimal
    /\ req.min_batch = MaxBatch
    /\ Len(result.chosen_flows) >= 2
    /\ \E i \in DOMAIN result.feasible_flows : engine.x[i] = 0 /\ ~HasEntry(i)

\* C4: a result whose status is not Optimal carries no allocation entry,
\* total_units 0 and total_cost 0.
C4_NonOptimalIsEmpty ==
    (Solved /\ result.status # LpStatus("Optimal")) =>
        /\ result.chosen_flows = <<>>
        /\ result.total_units = 0
        /\ result.total_cost = 0

\* C4 witness: the engine was run on a non-empty frame and reported Infeasible
C4_Witness ==
    /\ Solved
    /\ engine.calls = 1
    /\ result.status = LpStatus("Infeasible")
    /\ result.feasible_flows # <<>>
    /\ result.chosen_flows = <<>>

\* the factories that have an allowed row for the request, and the sum of
\* their capacities for the requested category
AllowedOrigins == {all_flows[k].factory_id : k \in AllowedRows}
CapacityOf(f) == IF <<f, req.category_id>> \in DOMAIN factory_capacity
                 THEN factory_capacity[<<f, req.category_id>>] ELSE 0
RECURSIVE CapacitySum(_)
CapacitySum(S) == IF S = {} THEN 0
                  ELSE LET f == CHOOSE g \in S : TRUE IN CapacityOf(f) + CapacitySum(S \ {f})

\* C5: when the capacities of the origins of the (non-empty) feasible set sum
\* to less than the volume, solve() returns the insufficient-capacity status
\* with no entries and without running the engine, and that status differs
\* from every engine status and from the no-feasible-flow status.
C5_InsufficientCapacity ==
    (Solved /\ AllowedRows # {} /\ CapacitySum(AllowedOrigins) < req.volume) =>
        /\ result.status = StatusInsufficient(CapacitySum(AllowedOrigins), req.volume)
        /\ result.chosen_flows = <<>>
        /\ engine.calls = 0
        /\ result.status.text \notin LpStatusTexts
        /\ result.status # StatusNoFeasible

\* C5 witness: two feasible flows of one factory whose capacity is below the
\* volume, answered with the insufficient-capacity status
C5_Witness ==
    /\ Solved
    /\ Cardinality(AllowedRows) >= 2
    /\ Cardinality(AllowedOrigins) = 1
    /\ CapacitySum(AllowedOrigins) < req.volume
    /\ result.status = StatusInsufficient(CapacitySum(AllowedOrigins), req.volume)

\* C6: when no row of the request is allowed, solve() returns the
\* no-feasible-flow status with nothing scored (the result keeps the default
\* empty frame) and the engine not run; the status is not the
\* insufficient-capacity one although the capacity sum 0 is below the volume.
C6_NoFeasibleFlowsFirst ==
    (Solved /\ AllowedRows = {}) =>
        /\ result.status = StatusNoFeasible
        /\ result.feasible_flows = <<>>
        /\ result.chosen_flows = <<>>
        /\ engine.calls = 0

\* C6 witness: the request has rows, all of them blocked, and a positive volume
C6_Witness ==
    /\ Solved
    /\ RequestRows # {}
    /\ AllowedRows = {}
    /\ CapacitySum(AllowedOrigins) < req.volume
    /\ result.status = StatusNoFeasible

\* the assignments <<x, y>> over the rows of the result's frame that satisfy
\* the stated model (x in 1/Grain units)
ModelSolutions ==
    LET fl == result.feasible_flows
        n == Len(fl)
        xOf(a, K) == SumTo([i \in 1..n |-> IF i \in K THEN a[1][i] ELSE 0], n)
    IN  {a \in Compositions(n, req.volume * Grain) \X [1..n -> {0, 1}] :
            /\ \A f \in Factories :
                xOf(a, {i \in 1..n : fl[i].factory_id = f}) <= CapacityOf(f) * Grain
            /\ \A h \in Hubs :
                xOf(a, {i \in 1..n : fl[i].hub_id = h}) <= hub_throughput[h] * Grain
            /\ \A i \in 1..n : /\ a[1][i] <= req.volume * Grain * a[2][i]
                               /\ a[1][i] >= req.min_batch * Grain * a[2][i]}

ScoreObjective(x) ==
    SumTo([i \in DOMAIN x |-> x[i] * result.feasible_flows[i].effective_cost[1]], Len(x))

\* objective of the allocation the result reports (score numerators, 1/Grain units)
ReturnedObjective ==
    SumTo([k \in DOMAIN result.chosen_flows |->
              result.chosen_flows[k].units_allocated * Grain
              * result.chosen_flows[k].effective_cost_per_unit[1]],
          Len(result.chosen_flows))

\* C7: no assignment that satisfies the stated model has a strictly smaller
\* objective than the allocation an Optimal result returns, and whenever the
\* pre-checks pass and a satisfying assignment exists the status is Optimal.
C7_OptimalForModel ==
    /\ IsOptimal => \A a \in ModelSolutions : ReturnedObjective <= ScoreObjective(a[1])
    /\ (Solved /\ AllowedRows # {} /\ CapacitySum(AllowedOrigins) >= req.volume
            /\ ModelSolutions # {}) => IsOptimal

\* C8: every flow of the frame the optimizer works on, and every allocation
\* entry, is an allowed row of the requested category and destination
\* (unrestricted and lead-time feasible); a blocked row never gets units.
C8_OnlyAllowedFlows ==
    Solved =>
        /\ \A i \in DOMAIN result.feasible_flows :
            \E k \in AllowedRows :
                /\ all_flows[k].factory_id = result.feasible_flows[i].factory_id
                /\ all_flows[k].hub_id = result.feasible_flows[i].hub_id
        /\ \A e \in DOMAIN result.chosen_flows :
            \E k \in AllowedRows :
                /\ all_flows[k].factory_id = result.chosen_flows[e].factory_id
                /\ all_flows[k].hub_id = result.chosen_flows[e].hub_id
        /\ Len(engine.x) <= Cardinality(AllowedRows)

\* C8 witness: an Optimal allocation while the request also has a restricted
\* row and a lead-time-infeasible row
C8_Witness ==
    /\ IsOptimal
    /\ result.chosen_flows # <<>>
    /\ \E k \in RequestRows : all_flows[k].is_geopolitically_restricted = 1
    /\ \E k \in RequestRows : /\ all_flows[k].is_lead_time_feasible = 0
                              /\ all_flows[k].is_geopolitically_restricted = 0

Ranked == pc = "Ranked"
Tier1Ids == FactoryIds(ranked.chosen_flows)
Tier2Ids == FactoryIds(ranked.other_available)
Tier3Ids == FactoryIds(ranked.alternative_factories)
TierPairs(entries) == {<<entries[k].factory_id, entries[k].hub_id>> : k \in DOMAIN entries}

C10_TiersCoverOrigins ==
    Ranked => Tier1Ids \cup Tier2Ids \cup Tier3Ids
                = IF ranked.category_id = "None"
                  THEN FactoryIds(result.feasible_flows)
                  ELSE Factories

Tier2 == ranked.other_available

\* C11 as stated: Tier 2 has at most three entries, its composite scores are
\* strictly ascending in list order, and its ranks are 2, 3, 4 cut to its length.
C11_Tier2StrictlyAscending ==
    Ranked =>
        /\ Len(Tier2) <= 3
        /\ \A k \in 1..(Len(Tier2) - 1) :
                Tier2[k].composite_score < Tier2[k + 1].composite_score
        /\ \A k \in DOMAIN Tier2 : Tier2[k].rank = k + 1

\* C11 (amended): Tier 2 has at most three entries, its composite scores never
\* decrease in list order (equal scores may be adjacent) and its ranks are
\* 2, 3, 4 cut to its length.
C11_Tier2Ascending ==
    Ranked =>
        /\ Len(Tier2) <= 3
        /\ \A k \in 1..(Len(Tier2) - 1) :
                Tier2[k].composite_score <= Tier2[k + 1].composite_score
        /\ \A k \in DOMAIN Tier2 : Tier2[k].rank = k + 1

\* C11 witness: a full Tier 2 whose first two scores are equal and whose last
\* score is larger, cut from more than three flows outside Tier 1
C11_Witness ==
    /\ Ranked
    /\ Len(Tier2) = 3
    /\ Len(result.feasible_flows) - Len(ranked.chosen_flows) > 3
    /\ Tier2[1].composite_score = Tier2[2].composite_score
    /\ Tier2[2].composite_score < Tier2[3].composite_score

DisplayFields == {"factory_name", "factory_city", "factory_country",
                  "hub_name", "hub_city", "hub_country"}

\* C12: Tier 1 holds the optimizer's entries in the same number and order,
\* every field of a solver entry keeps its value and only display fields are
\* added; ranking leaves the solve result as it was.
C12_Tier1IsTheAllocation ==
    /\ [](Ranked =>
            /\ Len(ranked.chosen_flows) = Len(result.chosen_flows)
            /\ \A k \in DOMAIN result.chosen_flows :
                /\ \A fld \in DOMAIN result.chosen_flows[k] :
                        ranked.chosen_flows[k][fld] = result.chosen_flows[k][fld]
                /\ (DOMAIN ranked.chosen_flows[k]) \ (DOMAIN result.chosen_flows[k])
                        \subseteq DisplayFields)
    /\ [][pc = "Solved" => result' = result]_vars

\* C12 witness: a ranking whose Tier 1 has two entries with different units
C12_Witness ==
    /\ Ranked
    /\ Len(ranked.chosen_flows) = 2
    /\ ranked.chosen_flows[1].units_allocated > ranked.chosen_flows[2].units_allocated

\* C13: for the frame, destination and weights of the request, the ranker's
\* composite_score of every flow equals the optimizer's effective_cost of that
\* flow, also when all costs or all transit days are identical.
C13_ScoresAgree ==
    (Solved \/ Ranked) =>
        LET cs == _compute_composite_scores(result.feasible_flows, req.country_code,
                                            req.weights)
        IN  \A i \in DOMAIN result.feasible_flows :
                /\ cs[i][1] * result.feasible_flows[i].effective_cost[2]
                     = result.feasible_flows[i].effective_cost[1] * cs[i][2]
                /\ cs[i] = result.feasible_flows[i].effective_cost

\* C13 witness: a scored frame of several flows with identical costs,
\* different transit days, and a flow that gets the partial regional credit
C13_Witness ==
    /\ Solved
    /\ Len(result.feasible_flows) >= 2
    /\ \A i, j \in DOMAIN result.feasible_flows :
            result.feasible_flows[i].total_landed_cost
                = result.feasible_flows[j].total_landed_cost
    /\ \E i, j \in DOMAIN result.feasible_flows :
            result.feasible_flows[i].transit_days # result.feasible_flows[j].transit_days
    /\ \E i \in DOMAIN result.feasible_flows :
            /\ get_region_for_factory(result.feasible_flows[i].factory_id)
                    # get_region_for_country(req.country_code)
            /\ get_region_for_hub(result.feasible_flows[i].hub_id)
                    = get_region_for_country(req.country_code)

\* units times transit days, and units, summed over an allocation
UnitDays(chosen) ==
    SumTo([k \in DOMAIN chosen |-> chosen[k].units_allocated * chosen[k].transit_days],
          Len(chosen))
UnitsOf(chosen) == SumTo([k \in DOMAIN chosen |-> chosen[k].units_allocated], Len(chosen))

\* average transit days of allocation a <= that of allocation b
AvgDaysLeq(a, b) == UnitDays(a) * UnitsOf(b) <= UnitDays(b) * UnitsOf(a)

\* the request with another time weight
WithTimeWeight(r, t) == [r EXCEPT !.weights = <<r.weights[1], t, r.weights[3]>>]

\* C15: with everything but time_weight fixed, an Optimal allocation for a
\* larger time_weight has a volume-weighted average transit time no larger
\* than an Optimal allocation for a smaller time_weight.
C15_TimeWeightMonotone ==
    (pc = "Solved" /\ IsOptimal) =>
        \A t \in {1, MaxTimeWeight} \ {req.weights[2]} :
            \A out \in solve(all_flows, factory_capacity, hub_throughput,
                             WithTimeWeight(req, t)) :
                out[1].status = LpStatus("Optimal") =>
                    IF t > req.weights[2]
                    THEN AvgDaysLeq(out[1].chosen_flows, result.chosen_flows)
                    ELSE AvgDaysLeq(result.chosen_flows, out[1].chosen_flows)

\* C16: whenever solve() has run the engine it has passed it a time limit, and
\* a run that ends on the limit is reported with a timeout status of its own
\* and no entries.
C16_EngineTimeLimit ==
    (Solved /\ engine.calls = 1) =>
        /\ engine.options.timeLimit # "None"
        /\ (engine.status \notin {"Optimal", "Infeasible"} =>
                /\ result.status.text \notin LpStatusTexts
                /\ result.status # StatusNoFeasible
                /\ result.chosen_flows = <<>>)

\* C17: no step of any session's solve() changes the shared tables, and every
\* finished session holds a result that a solve() of its request run alone on
\* the snapshot can return, whatever the other session did in between.
C17_SolvesDoNotInterfere ==
    /\ [](\A s \in Sessions :
            sessions[s].pc = "Done" =>
                sessions[s].result \in
                    {out[1] : out \in solve(all_flows, factory_capacity, hub_throughput,
                                            sessions[s].req)})
    /\ [][dataVars' = dataVars]_vars

\* C17 witness: both sessions finished with Optimal results for requests with
\* different weights, the second having loaded its frame after the first
\* scored its own
C17_Witness ==
    /\ \A s \in Sessions : /\ sessions[s].pc = "Done"
                           /\ sessions[s].result.status = LpStatus("Optimal")
    /\ sessions[1].req.weights # sessions[2].req.weights
    /\ sessions[1].req.volume # sessions[2].req.volume

Built == graph # nx_DiGraph
RestrictsEdges == {e \in DOMAIN graph.edges : graph.edges[e].edge_type = "RESTRICTS"}

\* C18: the built graph has as many restricts edges as there are restriction
\* records, and the restrictions query for a destination returns as many
\* entries as the restriction list holds for that destination.
C18_OneRestrictsEdgePerRecord ==
    Built =>
        /\ Cardinality(RestrictsEdges) = Cardinality(geopolitical)
        /\ \A cc \in Countries :
                Cardinality(get_restriction_graph(graph, cc))
                    = Cardinality(get_restrictions_for_country(geopolitical, cc))
        /\ (kg_answer.query = "get_restriction_graph" =>
                Cardinality(kg_answer.answer)
                    = Cardinality(get_restrictions_for_country(geopolitical,
                                                               kg_answer.args[1])))

\* the hubs with a delivers-to edge into a country
DeliversToSources(cc) ==
    {e[1][2] : e \in {d \in DOMAIN graph.edges :
                        /\ d[2] = NodeId("country", cc)
                        /\ graph.edges[d].edge_type = "DELIVERS_TO"}}

\* C19: impact_analysis(hub) answers exactly the destinations whose set of
\* delivers-to sources is this hub alone.
C19_ImpactIsSoleSource ==
    (Built /\ kg_answer.query = "impact_analysis") =>
        kg_answer.answer
            = {n[2] : n \in {m \in DOMAIN graph.nodes :
                                /\ m[1] = "country"
                                /\ DeliversToSources(m[2]) = {kg_answer.args[1]}}}

\* C19 witness: the hub delivers to two destinations, one of them served by
\* another hub as well, and only the other one is answered
C19_Witness ==
    /\ Built
    /\ kg_answer.query = "impact_analysis"
    /\ kg_answer.answer # {}
    /\ \E cc \in Countries :
        /\ cc \notin kg_answer.answer
        /\ kg_answer.args[1] \in DeliversToSources(cc)
        /\ Cardinality(DeliversToSources(cc)) > 1

\* C20: no query and no disruption analysis changes the graph, and every
\* answer equals the answer of the same query on a graph freshly built from
\* the snapshot, whatever was asked before.
C20_GraphIsReadOnly ==
    /\ [][graph' = graph]_vars
    /\ [](kg_answer.query # "none" =>
            kg_answer.answer = Answer(_build(all_flows, hub_throughput, geopolitical),
                                      kg_answer.query, kg_answer.args))

\* C20 witness: a disruption analysis with a disabled factory and a disabled
\* hub that cuts a destination off, on a graph that still has every node
C20_Witness ==
    /\ Built
    /\ kg_answer.query = "disruption_analysis"
    /\ kg_answer.args[1] # {}
    /\ kg_answer.args[2] # {}
    /\ kg_answer.answer.affected_countries # {}
    /\ kg_answer.answer.remaining_routes # {}
    /\ \A f \in Factories : NodeId("factory", f) \in DOMAIN graph.nodes
    /\ \A h \in Hubs : NodeId("hub", h) \in DOMAIN graph.nodes

Asked(query) == Built /\ kg_answer.query = query

\* C21: a query with an id that names no node or record answers an explicit
\* absence and does not raise: empty answers and zero counts from the graph
\* queries, None from get_factory, <<FALSE, reason>> from validate_flow.
C21_UnknownIdsAnswerAbsence ==
    /\ (Asked("impact_analysis") /\ kg_answer.args[1] = UnknownId)
            => kg_answer.answer = {}
    /\ (Asked("find_all_routes") /\ UnknownId \in {kg_answer.args[1], kg_answer.args[2]})
            => kg_answer.answer = {}
    /\ (Asked("supply_diversity") /\ kg_answer.args[1] = UnknownId)
            => DOMAIN kg_answer.answer = {}
    /\ (Asked("get_restriction_graph") /\ kg_answer.args[1] = UnknownId)
            => kg_answer.answer = {}
    /\ (Asked("hub_utilization_risk") /\ kg_answer.args[1] = UnknownId)
            => /\ kg_answer.answer.feeding_factories = {}
               /\ kg_answer.answer.served_countries = {}
               /\ kg_answer.answer.factory_count = 0
               /\ kg_answer.answer.country_count = 0
    /\ (Asked("get_factory") /\ kg_answer.args[1] = UnknownId)
            => kg_answer.answer = None /\ kg_answer.answer # Raised
    /\ (Asked("validate_flow") /\ UnknownId \in {kg_answer.args[1], kg_answer.args[2]})
            => /\ kg_answer.answer[1] = FALSE
               /\ kg_answer.answer[2][1] = "Unknown factory or hub"

\* C21 witness: get_factory asked for an id that is not a factory
C21_Witness ==
    /\ Asked("get_factory")
    /\ kg_answer.args[1] = UnknownId
    /\ kg_answer.answer = None

\* the restrictions of the destination that the flow's factory or hub matches
MatchingKinds(f, h, cc) ==
    {r.restriction_type : r \in
        {q \in geopolitical :
            /\ q.destination_country_code = cc
            /\ \/ q.restriction_type = "MADE_IN"
                    /\ q.restricted_country_code = _factory_country[f]
               \/ q.restriction_type = "ROUTED_THROUGH"
                    /\ q.restricted_country_code = _hub_country[h]}}

\* the kind of restriction a returned reason names
ReasonKind(reason) ==
    IF reason[1] = "MADE_IN restriction" THEN "MADE_IN"
    ELSE IF reason[1] = "ROUTED_THROUGH restriction" THEN "ROUTED_THROUGH"
    ELSE "none"

\* C22: for a known factory and hub, validate_flow answers invalid exactly
\* when the destination has a MADE_IN restriction on the factory's country or
\* a ROUTED_THROUGH restriction on the hub's country, and the reason names the
\* kind of a restriction that matches.
C22_ValidateFlowIffRestricted ==
    (Asked("validate_flow") /\ kg_answer.args[1] \in Factories
                            /\ kg_answer.args[2] \in Hubs) =>
        LET kinds == MatchingKinds(kg_answer.args[1], kg_answer.args[2], kg_answer.args[3])
        IN  /\ (kg_answer.answer[1] = FALSE) <=> (kinds # {})
            /\ (kg_answer.answer[1] = FALSE) =>
                    \E k \in kinds : ReasonKind(kg_answer.answer[2]) = k

\* C22 witness: a flow from a free origin through a hub in a country the
\* destination does not allow routing through is found invalid
C22_Witness ==
    /\ Asked("validate_flow")
    /\ kg_answer.args = <<"F1", "H2", "US">>
    /\ kg_answer.answer[1] = FALSE
    /\ ReasonKind(kg_answer.answer[2]) = "ROUTED_THROUGH"

\* the weight triples of non-negative weights up to MaxWeight with a positive sum
ScoreWeights ==
    {w \in (0..MaxWeight) \X (0..MaxWeight) \X (0..MaxWeight) : w[1] + w[2] + w[3] > 0}

\* a score <<num, den>> is a number in [0, 1]
InUnitInterval(sc) == sc[2] > 0 /\ 0 <= sc[1] /\ sc[1] <= sc[2]

\* score a under weights of sum wa equals score b under weights of sum wb,
\* once both are multiplied by their weight sums
SameWeightedSum(a, wa, b, wb) == a[1] * wa * b[2] = b[1] * wb * a[2]

SameCost(flows) ==
    \A i, j \in DOMAIN flows : flows[i].total_landed_cost = flows[j].total_landed_cost
SameDays(flows) ==
    \A i, j \in DOMAIN flows : flows[i].transit_days = flows[j].transit_days

FrameScores == _compute_composite_scores(result.feasible_flows, req.country_code, req.weights)
PairOf(i) == <<result.feasible_flows[i].factory_id, result.feasible_flows[i].hub_id>>
RowsOf(entries) == {i \in DOMAIN result.feasible_flows : PairOf(i) \in TierPairs(entries)}
Tier2Eligible == DOMAIN result.feasible_flows \ RowsOf(ranked.chosen_flows)
ScoreLess(a, b) == ~ScoreLeq(b, a)

\* C24: Tier 2 holds min(3, n) distinct flows out of the n feasible flows whose
\* (origin, hub) pair is not a Tier-1 pair, none of them with a Tier-1 pair,
\* and no eligible flow left out scores strictly lower than a flow in Tier 2.
C24_Tier2IsLowestEligible ==
    Ranked =>
        LET n == Cardinality(Tier2Eligible)
            rows == RowsOf(ranked.other_available)
        IN  /\ Len(ranked.other_available) = IF n < 3 THEN n ELSE 3
            /\ Cardinality(TierPairs(ranked.other_available)) = Len(ranked.other_available)
            /\ TierPairs(ranked.other_available) \cap TierPairs(ranked.chosen_flows) = {}
            /\ rows \subseteq Tier2Eligible
            /\ Cardinality(rows) = Len(ranked.other_available)
            /\ \A i \in Tier2Eligible \ rows, j \in rows :
                    ~ScoreLess(FrameScores[i], FrameScores[j])

\* C24 witness: after an Optimal solve more than three flows are eligible,
\* three are in Tier 2, and one left out scores strictly higher than a
\* Tier-2 flow
C24_Witness ==
    /\ Ranked
    /\ IsOptimal
    /\ Cardinality(Tier2Eligible) > 3
    /\ Len(ranked.other_available) = 3
    /\ \E i \in Tier2Eligible \ RowsOf(ranked.other_available),
          j \in RowsOf(ranked.other_available) :
            ScoreLess(FrameScores[j], FrameScores[i])

\* the entries of Tier 3 that come from feasible flows
Tier3Available ==
    {k \in DOMAIN ranked.alternative_factories :
        ranked.alternative_factories[k].status = "Available"}

\* the rows of the scored frame of one origin
RowsOfOrigin(f) == {i \in DOMAIN result.feasible_flows : result.feasible_flows[i].factory_id = f}

\* C25: the feasible part of Tier 3 has exactly one entry for each origin that
\* has a feasible flow and is in neither Tier 1 nor Tier 2, no origin appears
\* twice in Tier 3, and each such entry shows the hub, cost and (rounded)
\* score of a flow of that origin whose composite score is the origin's lowest.
C25_Tier3BestPerOrigin ==
    Ranked =>
        LET t3 == ranked.alternative_factories
            expected == {result.feasible_flows[i].factory_id : i \in DOMAIN result.feasible_flows}
                            \ (Tier1Ids \cup Tier2Ids)
        IN  /\ {t3[k].factory_id : k \in Tier3Available} = expected
            /\ Cardinality(Tier3Available) = Cardinality(expected)
            /\ Cardinality(Tier3Ids) = Len(t3)
            /\ \A k \in Tier3Available :
                \E i \in RowsOfOrigin(t3[k].factory_id) :
                    /\ t3[k].best_hub_id = result.feasible_flows[i].hub_id
                    /\ t3[k].cost_per_unit = result.feasible_flows[i].total_landed_cost
                    /\ t3[k].composite_score = Round4(FrameScores[i])
                    /\ \A j \in RowsOfOrigin(t3[k].factory_id) :
                            ScoreLeq(FrameScores[i], FrameScores[j])

\* C25 witness: an origin of Tier 3 with two feasible flows of different scores
C25_Witness ==
    /\ Ranked
    /\ \E k \in Tier3Available :
        \E i, j \in RowsOfOrigin(ranked.alternative_factories[k].factory_id) :
            ScoreLess(FrameScores[i], FrameScores[j])

\* the Tier-3 entries appended for origins without a feasible flow
Tier3Blocked == DOMAIN ranked.alternative_factories \ Tier3Available

\* the rows of the master table of one origin for the ranked category and
\* destination, restricted and late ones included
UnfilteredRowsOf(f) ==
    {k \in DOMAIN all_flows : /\ all_flows[k].category_id = ranked.category_id
                              /\ all_flows[k].country_code = req.country_code
                              /\ all_flows[k].factory_id = f}

\* the MADE_IN records between an origin's country and the destination
MadeInRecords(f) ==
    {r \in geopolitical : /\ r.destination_country_code = req.country_code
                          /\ r.restricted_country_code = factory_country(f)
                          /\ r.restriction_type = "MADE_IN"}

\* what C26 asks of the blocked entries of a ranking
BlockedEntriesAsClaimed ==
    LET t3 == ranked.alternative_factories
        covered == Tier1Ids \cup Tier2Ids \cup {t3[k].factory_id : k \in Tier3Available}
    IN  /\ {t3[k].factory_id : k \in Tier3Blocked} = Factories \ covered
        /\ \A k \in Tier3Blocked :
            /\ t3[k].composite_score = -1
            /\ IF MadeInRecords(t3[k].factory_id) # {}
               THEN \E r \in MadeInRecords(t3[k].factory_id) :
                        t3[k].status = <<"Restricted: ", r.reason>>
               ELSE t3[k].status = <<"Exceeds lead time">>
            /\ UnfilteredRowsOf(t3[k].factory_id) # {} =>
                \E i \in UnfilteredRowsOf(t3[k].factory_id) :
                    /\ t3[k].best_hub_id = all_flows[i].hub_id
                    /\ t3[k].cost_per_unit = all_flows[i].total_landed_cost
                    /\ t3[k].transit_days = all_flows[i].transit_days
                    /\ \A j \in UnfilteredRowsOf(t3[k].factory_id) :
                            all_flows[i].total_landed_cost <= all_flows[j].total_landed_cost

\* C26: when rank_flows is given a category, every catalog origin that no
\* tier covers is appended to Tier 3 with a null score, with the status
\* "Restricted: <reason>" exactly when a MADE_IN restriction exists between its
\* country and the destination and "Exceeds lead time" otherwise, showing the
\* cheapest of its unfiltered flows for the category and destination.
C26_BlockedOriginsAppended ==
    (Ranked /\ ranked.category_id # "None") => BlockedEntriesAsClaimed

\* the rows of the master table of a factory-hub pair and of a hub-country pair
ShipRows(f, h) == {k \in DOMAIN all_flows : all_flows[k].factory_id = f /\ all_flows[k].hub_id = h}
DeliverRows(h, cc) ==
    {k \in DOMAIN all_flows : all_flows[k].hub_id = h /\ all_flows[k].country_code = cc}

\* the hubs joined to the origin by a ships-to edge and to the destination by
\* a delivers-to edge
RouteHubs(f, cc) ==
    {h \in Hubs :
        /\ <<NodeId("factory", f), NodeId("hub", h)>> \in DOMAIN graph.edges
        /\ graph.edges[<<NodeId("factory", f), NodeId("hub", h)>>].edge_type = "SHIPS_TO"
        /\ <<NodeId("hub", h), NodeId("country", cc)>> \in DOMAIN graph.edges
        /\ graph.edges[<<NodeId("hub", h), NodeId("country", cc)>>].edge_type = "DELIVERS_TO"}

\* C27: find_all_routes(origin, destination) has exactly one route for every
\* hub with a ships-to edge from the origin and a delivers-to edge to the
\* destination and none for any other hub or node; a route carries the lowest
\* transport cost of the table's rows of its origin-hub pair and the lowest
\* last-mile cost of the rows of its hub-destination pair.
C27_RoutesAreTwoHopPaths ==
    Asked("find_all_routes") =>
        LET f == kg_answer.args[1]
            cc == kg_answer.args[2]
            routes == kg_answer.answer
        IN  /\ {r.hub_id : r \in routes} = RouteHubs(f, cc)
            /\ Cardinality(routes) = Cardinality(RouteHubs(f, cc))
            /\ \A r \in routes :
                /\ r.factory_id = f /\ r.country_code = cc
                /\ ShipRows(f, r.hub_id) # {} /\ DeliverRows(r.hub_id, cc) # {}
                /\ \A k \in ShipRows(f, r.hub_id) :
                        r.transport_cost <= all_flows[k].transport_cost
                /\ \E k \in ShipRows(f, r.hub_id) :
                        r.transport_cost = all_flows[k].transport_cost
                /\ \A k \in DeliverRows(r.hub_id, cc) :
                        r.last_mile_cost <= all_flows[k].last_mile_cost
                /\ \E k \in DeliverRows(r.hub_id, cc) :
                        r.last_mile_cost = all_flows[k].last_mile_cost

\* C27 witness: two routes from one origin, one of them over a pair whose
\* rows differ in transport cost, while the destination also has a restricts
\* edge
C27_Witness ==
    /\ Asked("find_all_routes")
    /\ Cardinality(kg_answer.answer) = 2
    /\ \E r \in kg_answer.answer :
        \E j, k \in ShipRows(r.factory_id, r.hub_id) :
            all_flows[j].transport_cost < all_flows[k].transport_cost
    /\ OutEdges(graph, NodeId("country", kg_answer.args[2]), "RESTRICTS") # {}

\* the hubs through which an origin reaches a destination, and the origins
\* that reach it
Reachers(cc) == {f \in Factories : RouteHubs(f, cc) # {}}

RECURSIVE SumCounts(_, _)
\* the sum of the counts of the regions in D
SumCounts(counts, D) ==
    IF D = {} THEN 0
    ELSE LET r == CHOOSE x \in D : TRUE
         IN  counts[r] + SumCounts(counts, D \ {r})

\* C28: supply_diversity(destination) maps exactly the regions that have an
\* origin reaching the destination over a ships-to and a delivers-to edge to
\* the number of distinct such origins of the region; an origin reaching it
\* through several hubs counts once, and the counts add up to the number of
\* origins that reach the destination.
C28_DiversityCountsDistinctOrigins ==
    Asked("supply_diversity") =>
        LET cc == kg_answer.args[1]
            counts == kg_answer.answer
        IN  /\ DOMAIN counts = {_factory_region[f] : f \in Reachers(cc)}
            /\ \A r \in DOMAIN counts :
                    /\ counts[r] = Cardinality({f \in Reachers(cc) : _factory_region[f] = r})
                    /\ counts[r] > 0
            /\ SumCounts(counts, DOMAIN counts) = Cardinality(Reachers(cc))

\* C28 witness: an origin reaches the destination through two hubs and is
\* counted once in its region
C28_Witness ==
    /\ Asked("supply_diversity")
    /\ \E f \in Factories :
        /\ Cardinality(RouteHubs(f, kg_answer.args[1])) = 2
        /\ kg_answer.answer[_factory_region[f]] = 1

\* the request with another minimum batch size
WithMinBatch(r, m) == [r EXCEPT !.min_batch = m]

\* C29: with category, destination, volume and weights fixed, an Optimal
\* result for a larger min_batch has at most as many allocation entries as an
\* Optimal result for a smaller min_batch.
C29_MinBatchMonotone ==
    (pc = "Solved" /\ IsOptimal) =>
        \A m \in (req.min_batch + 1)..MaxBatch :
            \A out \in solve(all_flows, factory_capacity, hub_throughput,
                             WithMinBatch(req, m)) :
                out[1].status = LpStatus("Optimal") =>
                    Len(out[1].chosen_flows) <= Len(result.chosen_flows)

\* C30: a volume of at least 1 that is below min_batch never gets an Optimal
\* result and never an allocation entry; when the request has feasible flows
\* and passes the capacity pre-check the engine is run, finds no assignment,
\* and its Infeasible status is the status returned.
C30_VolumeBelowMinBatch ==
    (Solved /\ req.volume >= 1 /\ req.volume < req.min_batch) =>
        /\ ~IsOptimal
        /\ result.chosen_flows = <<>>
        /\ result.total_units = 0
        /\ (AllowedRows # {} /\ CapacitySum(AllowedOrigins) >= req.volume) =>
                /\ engine.calls = 1
                /\ engine.status = "Infeasible"
                /\ result.status = LpStatus("Infeasible")

\* C30 witness: one unit asked with min_batch 2 while a single feasible flow's
\* origin and hub could take the whole volume; the engine ran and found the
\* problem infeasible
C30_Witness ==
    /\ Solved
    /\ req.volume = 1
    /\ req.min_batch > req.volume
    /\ \E k \in AllowedRows :
        /\ CapacityOf(all_flows[k].factory_id) >= req.volume
        /\ hub_throughput[all_flows[k].hub_id] >= req.volume
    /\ engine.calls = 1
    /\ result.status = LpStatus("Infeasible")

====
